---- MODULE Spec2Model ----
(***************************************************************************)
(* Invoice extraction (processInvoice) and the /upload batch handler of    *)
(* the invoice classifier, as a state machine.                             *)
(*                                                                         *)
(* Numbers are counted in thousandths, so 0.00 is 0, 12.50 is 12500 and    *)
(* 0.125 is 125; binary floating-point error is not modelled.              *)
(* JavaScript values are records [t, n, s, b]: t is the value's kind, n    *)
(* its number, s its string (a sequence of characters), b its boolean.     *)
(***************************************************************************)
EXTENDS Integers, Sequences, FiniteSets, TLC

(* ------------------------------------------------------------------ *)
(* Bounds and program constants                                        *)
(* ------------------------------------------------------------------ *)

\* Largest number of files in one upload that is explored.
MaxFiles == 2

maxRetries == 3

baseDelay == 1000

(* ------------------------------------------------------------------ *)
(* JavaScript values                                                   *)
(* ------------------------------------------------------------------ *)

Undef == [t |-> "undefined", n |-> 0, s |-> <<>>, b |-> FALSE]

Null == [t |-> "null", n |-> 0, s |-> <<>>, b |-> FALSE]

NaN == [t |-> "NaN", n |-> 0, s |-> <<>>, b |-> FALSE]

Obj == [t |-> "object", n |-> 0, s |-> <<>>, b |-> FALSE]

Num(x) == [t |-> "number", n |-> x, s |-> <<>>, b |-> FALSE]

Str(x) == [t |-> "string", n |-> 0, s |-> x, b |-> FALSE]

Bool(x) == [t |-> "boolean", n |-> 0, s |-> <<>>, b |-> x]

\* The typeof operator: NaN is a number, null is an object.
TypeOf(v) ==
    CASE v.t = "NaN" -> "number"
      [] v.t = "null" -> "object"
      [] OTHER -> v.t

\* ToBoolean, as used by the || operator.
Truthy(v) ==
    CASE v.t = "number" -> v.n # 0
      [] v.t = "string" -> v.s # <<>>
      [] v.t = "boolean" -> v.b
      [] v.t = "object" -> TRUE
      [] OTHER -> FALSE

\* a || b
OrElse(a, b) == IF Truthy(a) THEN a ELSE b

Digits == {"0", "1", "2", "3", "4", "5", "6", "7", "8", "9"}

DigitVal(c) ==
    CASE c = "0" -> 0 [] c = "1" -> 1 [] c = "2" -> 2 [] c = "3" -> 3
      [] c = "4" -> 4 [] c = "5" -> 5 [] c = "6" -> 6 [] c = "7" -> 7
      [] c = "8" -> 8 [] c = "9" -> 9

RECURSIVE SkipSpaces(_)
SkipSpaces(s) ==
    IF s # <<>> /\ Head(s) = " " THEN SkipSpaces(Tail(s)) ELSE s

\* The longest prefix of s made of digits.
RECURSIVE DigitPrefix(_)
DigitPrefix(s) ==
    IF s # <<>> /\ Head(s) \in Digits
    THEN <<Head(s)>> \o DigitPrefix(Tail(s))
    ELSE <<>>

RECURSIVE DigitsValue(_, _)
DigitsValue(ds, acc) ==
    IF ds = <<>> THEN acc ELSE DigitsValue(Tail(ds), 10 * acc + DigitVal(Head(ds)))

\* The value in thousandths of the fraction digits fs (digits after the
\* third are below the unit of the model and dropped).
FractionMills(fs) ==
    CASE Len(fs) = 0 -> 0
      [] Len(fs) = 1 -> 100 * DigitVal(fs[1])
      [] Len(fs) = 2 -> 100 * DigitVal(fs[1]) + 10 * DigitVal(fs[2])
      [] OTHER -> 100 * DigitVal(fs[1]) + 10 * DigitVal(fs[2]) + DigitVal(fs[3])

\* parseFloat of a string: leading blanks, an optional sign, digits, an
\* optional point and digits; whatever follows is ignored; NaN when no digit
\* is found.
ParseFloatStr(str) ==
    LET s0 == SkipSpaces(str)
        signed == s0 # <<>> /\ Head(s0) \in {"-", "+"}
        neg == s0 # <<>> /\ Head(s0) = "-"
        s1 == IF signed THEN Tail(s0) ELSE s0
        ip == DigitPrefix(s1)
        s2 == SubSeq(s1, Len(ip) + 1, Len(s1))
        fp == IF s2 # <<>> /\ Head(s2) = "." THEN DigitPrefix(Tail(s2)) ELSE <<>>
        mag == 1000 * DigitsValue(ip, 0) + FractionMills(fp)
    IN  IF ip = <<>> /\ fp = <<>> THEN NaN
        ELSE Num(IF neg THEN 0 - mag ELSE mag)

\* parseFloat(v): the argument is converted to a string first, so a number
\* comes back as itself and undefined, null, booleans and plain objects
\* give NaN.
ParseFloat(v) ==
    CASE v.t = "number" -> v
      [] v.t = "string" -> ParseFloatStr(v.s)
      [] OTHER -> NaN

(* ------------------------------------------------------------------ *)
(* The model's reply: text, fences, JSON                               *)
(* ------------------------------------------------------------------ *)

\* A JSON document as JSON.parse returns it. kind is "object" for a JSON
\* object (an absent key reads as undefined), "null" for the document null,
\* "prim" for a top-level number, string or boolean (every property of
\* which reads as undefined).
MkDoc(p, l, x, f, c) ==
    [kind |-> "object", parts |-> p, labor |-> l, tax |-> x, flagged |-> f,
     confidence |-> c]

NoDoc ==
    [kind |-> "none", parts |-> Undef, labor |-> Undef, tax |-> Undef,
     flagged |-> Undef, confidence |-> Undef]

NullDoc == [NoDoc EXCEPT !.kind = "null"]

PrimDoc == [NoDoc EXCEPT !.kind = "prim"]

\* A reply text is a sequence of tokens: the fence marker ```, the word
\* json, white space, the text of one JSON document, or other prose.
Tick == [k |-> "tick", doc |-> NoDoc]

JsonWord == [k |-> "json", doc |-> NoDoc]

Ws == [k |-> "ws", doc |-> NoDoc]

Junk == [k |-> "junk", doc |-> NoDoc]

DocTok(d) == [k |-> "doc", doc |-> d]

RECURSIVE TrimStart(_)
TrimStart(text) ==
    IF text # <<>> /\ Head(text).k = "ws" THEN TrimStart(Tail(text)) ELSE text

RECURSIVE TrimEnd(_)
TrimEnd(text) ==
    IF text # <<>> /\ text[Len(text)].k = "ws"
    THEN TrimEnd(SubSeq(text, 1, Len(text) - 1))
    ELSE text

\* String.prototype.trim
Trim(text) == TrimEnd(TrimStart(text))

\* text.startsWith(prefix)
StartsWith(text, prefix) ==
    /\ Len(text) >= Len(prefix)
    /\ SubSeq(text, 1, Len(prefix)) = prefix

\* .replace(/\s*```$/, ''): a closing fence at the very end goes, with
\* the white space before it.
DropClosingFence(text) ==
    IF text # <<>> /\ text[Len(text)].k = "tick"
    THEN TrimEnd(SubSeq(text, 1, Len(text) - 1))
    ELSE text

\* Mutant of StripFence: only a fence tagged json is removed.
MutStripFence(text) ==
    LET jsonText == Trim(text)
    IN  IF StartsWith(jsonText, <<Tick, JsonWord>>)
        THEN DropClosingFence(TrimStart(SubSeq(jsonText, 3, Len(jsonText))))
        ELSE jsonText

\* Remove markdown code blocks if present.
StripFence(text) ==
    LET jsonText == Trim(text)
    IN  IF StartsWith(jsonText, <<Tick, JsonWord>>)
        THEN DropClosingFence(TrimStart(SubSeq(jsonText, 3, Len(jsonText))))
        ELSE IF StartsWith(jsonText, <<Tick>>)
        THEN DropClosingFence(TrimStart(Tail(jsonText)))
        ELSE jsonText

\* JSON.parse: one document, white space allowed around it; anything else
\* is a SyntaxError (ok = FALSE).
JSONParse(jsonText) ==
    LET core == Trim(jsonText)
    IN  IF Len(core) = 1 /\ core[1].k = "doc"
        THEN [ok |-> TRUE, doc |-> core[1].doc]
        ELSE [ok |-> FALSE, doc |-> NoDoc]

(* ------------------------------------------------------------------ *)
(* Validation and normalisation of the parsed reply                    *)
(* ------------------------------------------------------------------ *)

\* Mutant of NormalizeAmount: an unparsable value is not replaced by 0.
MutNormalizeAmount(x) ==
    IF TypeOf(x) = "number" THEN x ELSE ParseFloat(x)

\* typeof x === 'number' ? x : parseFloat(x) || 0.00
NormalizeAmount(x) ==
    IF TypeOf(x) = "number" THEN x ELSE OrElse(ParseFloat(x), Num(0))

\* Mutant of FlaggedFromTax: a number never sets the flag.
MutFlaggedFromTax(tax) == TypeOf(tax) = "string"

\* flagged starts false and is set from the tax value alone.
FlaggedFromTax(tax) ==
    IF TypeOf(tax) = "number" /\ tax.n # 0 THEN TRUE
    ELSE IF TypeOf(tax) = "string" THEN TRUE
    ELSE FALSE

NoFilename == "(none)"

\* An error message is a sequence of words; NoError stands for an absent one.
NoError == <<>>

NoData ==
    [parts |-> Undef, labor |-> Undef, tax |-> Undef, flagged |-> Undef,
     confidence |-> Undef, filename |-> NoFilename, filepath |-> Undef,
     error |-> NoError, quotaExceeded |-> Undef]

MEDIUM == <<"m", "e", "d", "i", "u", "m">>

\* Mutant: the reply's own flagged field is trusted as well.
MutValidatedData(parsed) ==
    [NoData EXCEPT
        !.parts = NormalizeAmount(parsed.parts),
        !.labor = NormalizeAmount(parsed.labor),
        !.tax = parsed.tax,
        !.flagged = Bool(Truthy(parsed.flagged) \/ FlaggedFromTax(parsed.tax)),
        !.confidence = OrElse(parsed.confidence, Str(MEDIUM))]

\* Mutant of ValidatedData: a string tax with a numeric text is turned
\* into that number before the flag is set.
MutValidatedDataCoercesTax(parsed) ==
    LET tax == IF TypeOf(parsed.tax) = "string" /\ ParseFloat(parsed.tax) # NaN
               THEN ParseFloat(parsed.tax)
               ELSE parsed.tax
    IN  [NoData EXCEPT
            !.parts = NormalizeAmount(parsed.parts),
            !.labor = NormalizeAmount(parsed.labor),
            !.tax = tax,
            !.flagged = Bool(FlaggedFromTax(tax)),
            !.confidence = OrElse(parsed.confidence, Str(MEDIUM))]

\* validatedData, with flagged already set.
ValidatedData(parsed) ==
    [NoData EXCEPT
        !.parts = NormalizeAmount(parsed.parts),
        !.labor = NormalizeAmount(parsed.labor),
        !.tax = parsed.tax,
        !.flagged = Bool(FlaggedFromTax(parsed.tax)),
        !.confidence = OrElse(parsed.confidence, Str(MEDIUM))]

(* ------------------------------------------------------------------ *)
(* processInvoice: what one attempt returns                            *)
(* ------------------------------------------------------------------ *)

\* What processInvoice returns. hasRaw tells whether the raw key is there;
\* quotaExceeded is undefined unless the key is set. defined is FALSE for
\* the undefined a function returns when it falls off its end.
NoResult ==
    [defined |-> FALSE, success |-> FALSE, data |-> NoData, hasRaw |-> FALSE,
     raw |-> <<>>, error |-> NoError, quotaExceeded |-> Undef]

ParseFailedMessage == <<"Failed", "to", "parse", "AI", "response">>

QuotaMessage ==
    <<"API", "quota", "exceeded.", "Please", "try", "again", "later", "or",
      "upgrade", "your", "plan.">>

\* (MutHandleReply is the mutant whose parse failure drops the raw text.)
\* From the cleaned text to the return statement of the inner try/catch:
\* a SyntaxError of JSON.parse and the TypeError of reading parsed.parts of
\* null both land in the inner catch.
MutHandleReply(text) ==
    LET p == JSONParse(StripFence(text))
    IN  IF p.ok /\ p.doc.kind # "null"
        THEN [NoResult EXCEPT !.defined = TRUE, !.success = TRUE,
                              !.data = ValidatedData(p.doc),
                              !.hasRaw = TRUE, !.raw = text]
        ELSE [NoResult EXCEPT !.defined = TRUE, !.success = FALSE,
                              !.error = ParseFailedMessage]

HandleReply(text) ==
    LET p == JSONParse(StripFence(text))
    IN  IF p.ok /\ p.doc.kind # "null"
        THEN [NoResult EXCEPT !.defined = TRUE, !.success = TRUE,
                              !.data = ValidatedData(p.doc),
                              !.hasRaw = TRUE, !.raw = text]
        ELSE [NoResult EXCEPT !.defined = TRUE, !.success = FALSE,
                              !.error = ParseFailedMessage,
                              !.hasRaw = TRUE, !.raw = text]

\* message.includes(marker), on words.
Includes(message, marker) ==
    \E k \in 1..Len(message) :
        /\ k + Len(marker) - 1 <= Len(message)
        /\ SubSeq(message, k, k + Len(marker) - 1) = marker

\* Check if it's a quota/rate limit error. (MutisRateLimit is the mutant
\* that takes every error for one.)
MutisRateLimit(message) == TRUE

\* Mutant of isRateLimit: the billing marker is not looked for.
MutisRateLimitNoBilling(message) ==
    \/ Includes(message, <<"429">>)
    \/ Includes(message, <<"quota">>)
    \/ Includes(message, <<"rate", "limit">>)

isRateLimit(message) ==
    \/ Includes(message, <<"429">>)
    \/ Includes(message, <<"quota">>)
    \/ Includes(message, <<"rate", "limit">>)
    \/ Includes(message, <<"billing">>)

RECURSIVE Pow2(_)
Pow2(k) == IF k <= 0 THEN 1 ELSE 2 * Pow2(k - 1)

\* baseDelay * Math.pow(2, attempt - 1). (MutBackoffDelay is the mutant
\* with the exponent off by one.)
MutBackoffDelay(att) == baseDelay * Pow2(att)

BackoffDelay(att) == baseDelay * Pow2(att - 1)

\* attempt < maxRetries. (Mutants: one attempt too many, one too few.)
MutMayRetry(att) == att <= maxRetries

MutMayRetryEarly(att) == att < maxRetries - 1

MayRetry(att) == att < maxRetries

QuotaFailure ==
    [NoResult EXCEPT !.defined = TRUE, !.success = FALSE, !.error = QuotaMessage,
                     !.quotaExceeded = Bool(TRUE)]

\* For other errors, don't retry. (MutErrorFailure is the mutant that
\* replaces the upstream message.)
MutErrorFailure(message) ==
    [NoResult EXCEPT !.defined = TRUE, !.success = FALSE,
                     !.error = <<"Processing", "failed">>]

ErrorFailure(message) ==
    [NoResult EXCEPT !.defined = TRUE, !.success = FALSE, !.error = message]

(* ------------------------------------------------------------------ *)
(* Inputs explored: file names, model replies, errors of the model call *)
(* ------------------------------------------------------------------ *)

FileNames == {"a.jpg", "b.png"}

RECURSIVE SeqsUpTo(_, _)
SeqsUpTo(S, k) ==
    IF k = 0 THEN {<<>>}
    ELSE LET shorter == SeqsUpTo(S, k - 1)
         IN  shorter \cup {Append(q, x) : q \in shorter, x \in S}

HIGH == <<"h", "i", "g", "h">>

LOW == <<"l", "o", "w">>

\* The JSON documents the model is let to answer with (numbers in
\* thousandths): well-formed ones, ones whose flagged field contradicts the
\* tax, string amounts, missing keys, null and other shapes of tax.
Docs ==
    { MkDoc(Num(100000), Num(0), Num(0), Bool(FALSE), Str(HIGH)),
      MkDoc(Num(50000), Num(20000), Str(<<"N", "/", "A">>), Bool(TRUE), Str(LOW)),
      MkDoc(Str(<<"1", "2", ".", "5", "0">>), Undef, Num(8250), Bool(FALSE), Undef),
      MkDoc(Num(30000), Num(10125), Null, Bool(TRUE), Str(MEDIUM)),
      MkDoc(Undef, Undef, Undef, Undef, Undef),
      MkDoc(Str(<<"$", "4", "5">>), Str(<<" ", "7", ".", "5">>), Str(<<"0">>), Undef,
            Str(<<"s", "u", "r", "e">>)),
      MkDoc(Num(0 - 5000), Num(0), Bool(TRUE), Bool(TRUE), Num(1000)),
      NullDoc,
      PrimDoc }

\* A document as the model may write it: bare, in white space, in a
\* ```json fence, in a plain ``` fence.
Wrappings(d) ==
    { <<DocTok(d)>>,
      <<Ws, DocTok(d), Ws>>,
      <<Tick, JsonWord, Ws, DocTok(d), Ws, Tick>>,
      <<Tick, Ws, DocTok(d), Ws, Tick>> }

\* Every reply text explored: the wrapped documents, and replies that are
\* no JSON (prose, prose before the document, an empty reply).
ReplyTexts ==
    UNION {Wrappings(d) : d \in Docs}
        \cup {<<Junk>>, <<Junk, Ws, DocTok(MkDoc(Num(1000), Num(0), Num(0), Undef, Undef))>>,
              <<>>}

\* The replies explored for the files after the first, to keep the
\* state space of a batch small: one unflagged document, flagged ones by a
\* string and by a number, one with a null tax, and prose.
LaterTexts ==
    { <<DocTok(MkDoc(Num(100000), Num(0), Num(0), Bool(FALSE), Str(HIGH)))>>,
      <<DocTok(MkDoc(Num(50000), Num(20000), Str(<<"N", "/", "A">>), Bool(TRUE), Str(LOW)))>>,
      <<Tick, JsonWord, Ws,
        DocTok(MkDoc(Str(<<"1", "2", ".", "5", "0">>), Undef, Num(8250), Bool(FALSE), Undef)),
        Ws, Tick>>,
      <<DocTok(MkDoc(Num(30000), Num(10125), Null, Bool(TRUE), Str(MEDIUM)))>>,
      <<Junk>> }

\* The replies explored for the file at loop index k.
TextsFor(k) == IF k = 0 THEN ReplyTexts ELSE LaterTexts

\* The same reply with another value in (or without) its flagged field.
FlaggedVariants == {Undef, Bool(TRUE), Bool(FALSE)}

WithFlagged(text, f) ==
    [k \in DOMAIN text |->
        IF text[k].k = "doc" /\ text[k].doc.kind = "object"
        THEN DocTok([text[k].doc EXCEPT !.flagged = f])
        ELSE text[k]]

\* Messages of the errors the model call raises.
RateLimitMessages ==
    { <<"429", "You", "exceeded", "your", "current", "quota">>,
      <<"400", "billing", "hard", "limit", "reached">> }

OtherMessages ==
    { <<"401", "Incorrect", "API", "key", "provided">>,
      <<"Connection", "error.">> }

ErrorMessages == RateLimitMessages \cup OtherMessages

\* The TypeError of text.trim() when the reply's content is null.
NullContentMessage ==
    <<"Cannot", "read", "properties", "of", "null", "(reading", "'trim')">>

(* ------------------------------------------------------------------ *)
(* The /upload handler: aggregation                                    *)
(* ------------------------------------------------------------------ *)

\* parseFloat(x.toFixed(2)): to the nearest hundredth, ties away from zero.
Round2(x) ==
    LET a == IF x < 0 THEN 0 - x ELSE x
        r == ((a + 5) \div 10) * 10
    IN  IF x < 0 THEN 0 - r ELSE r

\* The handler's accumulators before the first file.
EmptyAcc ==
    [results |-> <<>>, totalParts |-> 0, totalLabor |-> 0, totalTax |-> 0,
     flaggedCount |-> 0]

\* The row pushed for a successful extraction: data with the file info.
\* (MutSuccessRow is the mutant that attaches no file name.)
MutSuccessRow(data, filename) == [data EXCEPT !.filepath = Null]

SuccessRow(data, filename) ==
    [data EXCEPT !.filename = filename, !.filepath = Null]

\* The row pushed for a failed extraction. (MutFailureRow is the mutant
\* that leaves the row unflagged.)
MutFailureRow(res, filename) ==
    [NoData EXCEPT !.filename = filename, !.filepath = Null, !.error = res.error,
                   !.flagged = Bool(FALSE),
                   !.quotaExceeded = OrElse(res.quotaExceeded, Bool(FALSE))]

\* Mutant of FailureRow: quotaExceeded is not propagated.
MutFailureRowNoQuota(res, filename) ==
    [NoData EXCEPT !.filename = filename, !.filepath = Null, !.error = res.error,
                   !.flagged = Bool(TRUE),
                   !.quotaExceeded = Bool(FALSE)]

FailureRow(res, filename) ==
    [NoData EXCEPT !.filename = filename, !.filepath = Null, !.error = res.error,
                   !.flagged = Bool(TRUE),
                   !.quotaExceeded = OrElse(res.quotaExceeded, Bool(FALSE))]

\* Mutant of Aggregate: flagged rows are added to the totals too.
MutAggregateCountsFlagged(acc, res, filename) ==
    IF res.success
    THEN LET data == SuccessRow(res.data, filename)
             counted == ~Truthy(data.flagged)
         IN  [results |-> Append(acc.results, data),
              totalParts |-> acc.totalParts + OrElse(ParseFloat(data.parts), Num(0)).n,
              totalLabor |-> acc.totalLabor + OrElse(ParseFloat(data.labor), Num(0)).n,
              totalTax |-> acc.totalTax +
                  (IF TypeOf(data.tax) = "number" THEN data.tax.n ELSE 0),
              flaggedCount |-> acc.flaggedCount + (IF counted THEN 0 ELSE 1)]
    ELSE [acc EXCEPT !.results = Append(acc.results, FailureRow(res, filename)),
                     !.flaggedCount = acc.flaggedCount + 1]

\* Mutant of Aggregate: a failed file resets the running totals.
MutAggregateResets(acc, res, filename) ==
    IF res.success
    THEN LET data == SuccessRow(res.data, filename)
             counted == ~Truthy(data.flagged)
         IN  [results |-> Append(acc.results, data),
              totalParts |-> acc.totalParts +
                  (IF counted THEN OrElse(ParseFloat(data.parts), Num(0)).n ELSE 0),
              totalLabor |-> acc.totalLabor +
                  (IF counted THEN OrElse(ParseFloat(data.labor), Num(0)).n ELSE 0),
              totalTax |-> acc.totalTax +
                  (IF counted /\ TypeOf(data.tax) = "number" THEN data.tax.n ELSE 0),
              flaggedCount |-> acc.flaggedCount + (IF counted THEN 0 ELSE 1)]
    ELSE [acc EXCEPT !.results = Append(acc.results, FailureRow(res, filename)),
                     !.totalParts = 0, !.totalLabor = 0, !.totalTax = 0,
                     !.flaggedCount = acc.flaggedCount + 1]

\* One turn of the loop body after processInvoice has returned res (which
\* is defined): the row appended, and the totals and the flagged counter.
Aggregate(acc, res, filename) ==
    IF res.success
    THEN LET data == SuccessRow(res.data, filename)
             counted == ~Truthy(data.flagged)
         IN  [results |-> Append(acc.results, data),
              totalParts |-> acc.totalParts +
                  (IF counted THEN OrElse(ParseFloat(data.parts), Num(0)).n ELSE 0),
              totalLabor |-> acc.totalLabor +
                  (IF counted THEN OrElse(ParseFloat(data.labor), Num(0)).n ELSE 0),
              totalTax |-> acc.totalTax +
                  (IF counted /\ TypeOf(data.tax) = "number" THEN data.tax.n ELSE 0),
              flaggedCount |-> acc.flaggedCount + (IF counted THEN 0 ELSE 1)]
    ELSE [acc EXCEPT !.results = Append(acc.results, FailureRow(res, filename)),
                     !.flaggedCount = acc.flaggedCount + 1]

NoSummary ==
    [totalParts |-> 0, totalLabor |-> 0, totalTax |-> 0, totalInvoices |-> 0,
     flaggedCount |-> 0, processedCount |-> 0]

\* Mutant of Summary: processedCount counts every row.
MutSummary(acc) ==
    [totalParts |-> Round2(acc.totalParts),
     totalLabor |-> Round2(acc.totalLabor),
     totalTax |-> Round2(acc.totalTax),
     totalInvoices |-> Len(acc.results),
     flaggedCount |-> acc.flaggedCount,
     processedCount |-> Len(acc.results)]

\* The summary of the response.
Summary(acc) ==
    [totalParts |-> Round2(acc.totalParts),
     totalLabor |-> Round2(acc.totalLabor),
     totalTax |-> Round2(acc.totalTax),
     totalInvoices |-> Len(acc.results),
     flaggedCount |-> acc.flaggedCount,
     processedCount |-> Len(acc.results) - acc.flaggedCount]

\* The summary stored with the batch row.
StoredSummary(acc) ==
    [NoSummary EXCEPT !.totalParts = Round2(acc.totalParts),
                      !.totalLabor = Round2(acc.totalLabor),
                      !.totalTax = Round2(acc.totalTax),
                      !.flaggedCount = acc.flaggedCount]

(* ------------------------------------------------------------------ *)
(* The /upload handler of src/server.js: aggregation                   *)
(* ------------------------------------------------------------------ *)

\* The accumulators of the handler of src/server.js before the first file.
ServerEmptyAcc ==
    [results |-> <<>>, totalParts |-> 0, totalLabor |-> 0, totalTax |-> 0,
     flaggedCount |-> 0, processedCount |-> 0]

ProcessingFailed == <<"Processing", "failed">>

\* The row pushed when processInvoiceWithAI returned data.
ServerSuccessRow(data, filename) ==
    [NoData EXCEPT !.filename = filename, !.parts = data.parts,
                   !.labor = data.labor, !.tax = data.tax,
                   !.flagged = data.flagged, !.confidence = data.confidence]

\* The row pushed in the catch block of the loop body.
ServerFailureRow(filename) ==
    [NoData EXCEPT !.filename = filename, !.error = ProcessingFailed,
                   !.parts = Num(0), !.labor = Num(0), !.tax = Num(0),
                   !.flagged = Bool(FALSE), !.confidence = Str(LOW)]

\* One turn of the loop body of src/server.js for the extraction outcome
\* res: data returned (res.success) or an error thrown.
ServerAggregate(acc, res, filename) ==
    IF res.success
    THEN LET data == res.data
         IN  [results |-> Append(acc.results, ServerSuccessRow(data, filename)),
              totalParts |-> acc.totalParts + OrElse(ParseFloat(data.parts), Num(0)).n,
              totalLabor |-> acc.totalLabor + OrElse(ParseFloat(data.labor), Num(0)).n,
              totalTax |-> acc.totalTax +
                  (IF TypeOf(data.tax) = "number" THEN data.tax.n ELSE 0),
              flaggedCount |-> acc.flaggedCount + (IF Truthy(data.flagged) THEN 1 ELSE 0),
              processedCount |-> acc.processedCount + 1]
    ELSE [acc EXCEPT !.results = Append(acc.results, ServerFailureRow(filename))]

\* The summary of the response of src/server.js for a batch of n files.
ServerSummary(acc, n) ==
    [totalParts |-> Round2(acc.totalParts),
     totalLabor |-> Round2(acc.totalLabor),
     totalTax |-> Round2(acc.totalTax),
     totalInvoices |-> n,
     flaggedCount |-> acc.flaggedCount,
     processedCount |-> acc.processedCount]

\* The loop of src/server.js over the files fs with the outcomes rs.
RECURSIVE ServerFold(_, _, _)
ServerFold(acc, fs, rs) ==
    IF fs = <<>> THEN acc
    ELSE ServerFold(ServerAggregate(acc, Head(rs), Head(fs)), Tail(fs), Tail(rs))

NoUser == "(no user)"

Users == {"u1"}

NoBatch == 0

NoResponse ==
    [status |-> 0, success |-> FALSE, results |-> <<>>, summary |-> NoSummary,
     batchId |-> NoBatch, error |-> NoError]

NoFilesMessage == <<"No", "files", "uploaded">>

ServerErrorMessage == <<"Server", "error", "processing", "invoices">>

(* ------------------------------------------------------------------ *)
(* Concurrent /upload requests                                         *)
(* ------------------------------------------------------------------ *)

MaxConcFiles == 2

\* Two requests in flight in the one Node process.
Requests == {1, 2}

\* The files of a request carry its own name, so that a row of one batch
\* is told from a row of the other.
ConcFileName(r) == IF r = 1 THEN "a.jpg" ELSE "b.png"

\* The replies and the errors explored for concurrent requests: an
\* unflagged document and a flagged one; a rate-limit error and another
\* error.
ConcTexts ==
    { <<DocTok(MkDoc(Num(100000), Num(10125), Num(0), Bool(FALSE), Str(HIGH)))>>,
      <<DocTok(MkDoc(Num(30000), Num(10125), Str(<<"N", "/", "A">>), Bool(TRUE), Str(LOW)))>> }

ConcMessages ==
    { <<"429", "You", "exceeded", "your", "current", "quota">>,
      <<"Connection", "error.">> }

\* The bindings one invocation of the handler creates: its files, where it
\* is, the loop index, processInvoice's attempt counter, the accumulators,
\* the batch id and the response; returns is the history of what
\* processInvoice returned to it.
IdleReq ==
    [pc |-> "idle", files |-> <<>>, i |-> 0, attempt |-> 0, acc |-> EmptyAcc,
     batchId |-> NoBatch, response |-> NoResponse, returns |-> <<>>]

\* A request that has arrived with the files fs.
ArrivedReq(fs) == [IdleReq EXCEPT !.pc = "start", !.files = fs]

\* The invoice row the loop body inserts for a success of a batch that
\* has a row.
WithInvoice(row, q, res) ==
    IF res.success /\ q.batchId # NoBatch
    THEN [row EXCEPT !.invoices = @ + 1]
    ELSE row

(* ------------------------------------------------------------------ *)
(* The /api write routes and their tables                              *)
(* ------------------------------------------------------------------ *)

MaxWrites == 3

RouteUsers == {"u1", "u2"}

BatchIds == {"b1", "b2"}

InvoiceIds == {"i1", "i2", "i3"}

FileIds == {"f1", "f2"}

\* An empty database.
NoTables == [batches |-> <<>>, invoices |-> <<>>, files |-> <<>>, reviews |-> {}]

\* extracted_data as the upload stored it: no isEdited, no originalValues
\* (an absent originalValues is the empty sequence, a present one the
\* sequence of that one object).
Extracted ==
    [val |-> "extracted", flagged |-> FALSE, isEdited |-> FALSE, originalValues |-> <<>>]

\* The extractedData of a request body: absent (<<>>), or an object.
ExtractedBodies ==
    {<<>>} \cup {<<[val |-> v, flagged |-> FALSE]>> : v \in {"edit1", "edit2"}}

\* The body of PUT /api/batches/:batchId: any columns; here batch_name,
\* with or without user_id.
BatchBodies ==
    {[batch_name |-> "renamed", user_id |-> o] : o \in {<<>>} \cup {<<u>> : u \in RouteUsers}}

\* A database two users have uploaded to: each has a batch with one
\* invoice and one file. held is history: the extracted_data the invoice
\* held before its first edit, once it has been edited.
SeededTables ==
    [batches |-> [b \in BatchIds |->
                    [user_id |-> IF b = "b1" THEN "u1" ELSE "u2", batch_name |-> "batch"]],
     invoices |-> [n \in {"i1", "i2"} |->
                    [batch_id |-> IF n = "i1" THEN "b1" ELSE "b2",
                     user_id |-> IF n = "i1" THEN "u1" ELSE "u2",
                     extracted_data |-> Extracted, held |-> <<>>]],
     files |-> [f \in FileIds |->
                    [batch_id |-> IF f = "f1" THEN "b1" ELSE "b2",
                     user_id |-> IF f = "f1" THEN "u1" ELSE "u2",
                     edited |-> FALSE]],
     reviews |-> {}]

\* A table without the rows whose ids are in gone.
Without(table, gone) == [k \in DOMAIN table \ gone |-> table[k]]

\* A table with the row under id added or replaced.
With(table, id, row) ==
    [k \in DOMAIN table \cup {id} |-> IF k = id THEN row ELSE table[k]]

\* .select(cols)...single(): the row with only the columns asked for; a
\* column not asked for reads as undefined (<<>>).
Column(row, cols, col) == IF col \in cols THEN <<row[col]>> ELSE <<>>

\* from('invoices')...eq('id', id).eq('batches.user_id', userId): the
\* invoice exists and the batch it is attached to is the caller's.
InvoiceOfCaller(t, id, u) ==
    /\ id \in DOMAIN t.invoices
    /\ t.invoices[id].batch_id \in DOMAIN t.batches
    /\ t.batches[t.invoices[id].batch_id].user_id = u

\* existingInvoice.extracted_data?.originalValues || existingInvoice.extracted_data
OriginalValues(data) ==
    IF data = <<>> THEN <<>>
    ELSE IF data[1].originalValues # <<>> THEN data[1].originalValues
    ELSE data

\* The record of one write: who called, and whose row (or whose batch or
\* file the row is attached to) was created, modified or deleted.
Wrote(u, owner, what) == [caller |-> u, owner |-> owner, what |-> what]


(* ------------------------------------------------------------------ *)
(* State                                                               *)
(* ------------------------------------------------------------------ *)

VARIABLES
    files,          \* req.files: the names of the uploaded files, in order
    pc,             \* where the request is
    i,              \* files processed so far (the loop index)
    attempt,        \* processInvoice's attempt counter
    result,         \* what processInvoice returned for the current file
    results,        \* the handler's results list
    totalParts,     \* running totals of the handler
    totalLabor,
    totalTax,
    flaggedCount,
    userId,         \* the authenticated user, or NoUser
    batchId,        \* the batch row created for the upload, or NoBatch
    db,             \* the batch row and the number of invoice rows stored
    response,       \* the HTTP response, once sent
    calls,          \* history: model calls issued for the current file
    callLog,        \* history: how each finished call of the current file ended
    sleeps,         \* history: the backoff delays slept for the current file
    invoked,        \* history: the file names processInvoice was called with
    outcomes,       \* history: per file, whether processInvoice reported success
    returns,        \* history: per file, what processInvoice returned, less raw
    altResult,      \* the same run with other flagged fields in the replies:
    alt,            \*   what processInvoice returns, and the accumulators
    reqs,           \* concurrent /upload requests: each one's local state
    batchRows,      \* concurrent /upload requests: each one's batch row
    tables,         \* the database the /api routes write to
    served,         \* the number of write requests the /api routes have served
    writes          \* history: who wrote rows of whom through the /api routes

\* The state of the one /upload request followed in detail.
uploadVars ==
    <<files, pc, i, attempt, result, results, totalParts, totalLabor, totalTax,
      flaggedCount, userId, batchId, db, response, calls, callLog, sleeps,
      invoked, outcomes, returns, altResult, alt>>

\* The state of the concurrent /upload requests.
concVars == <<reqs, batchRows>>

\* The state behind the /api routes.
routeVars == <<tables, served, writes>>

vars == <<uploadVars, concVars, routeVars>>

\* Mutant of AfterOutcome: the accumulators are shared by the requests
\* (those of request 1 are everybody's).
MutAfterOutcome(q, res) ==
    LET more == q.i + 1 < Len(q.files)
    IN  [q EXCEPT !.acc = Aggregate(reqs[1].acc, res, q.files[q.i + 1]),
                  !.returns = Append(@, [res EXCEPT !.raw = <<>>]),
                  !.i = @ + 1,
                  !.attempt = IF more THEN 1 ELSE 0,
                  !.pc = IF more THEN "awaiting" ELSE "finishing"]

\* The handler resumes with what processInvoice returned for file i + 1:
\* the loop body, and then either the next file's model call or, after
\* the last file, the batch update.
AfterOutcome(q, res) ==
    LET more == q.i + 1 < Len(q.files)
    IN  [q EXCEPT !.acc = Aggregate(q.acc, res, q.files[q.i + 1]),
                  !.returns = Append(@, [res EXCEPT !.raw = <<>>]),
                  !.i = @ + 1,
                  !.attempt = IF more THEN 1 ELSE 0,
                  !.pc = IF more THEN "awaiting" ELSE "finishing"]

\* The handler's accumulators as one record.
Acc ==
    [results |-> results, totalParts |-> totalParts, totalLabor |-> totalLabor,
     totalTax |-> totalTax, flaggedCount |-> flaggedCount]

NoDb == [status |-> "none", invoices |-> 0, summary |-> NoSummary]

Init ==
    /\ files \in SeqsUpTo(FileNames, MaxFiles)
    /\ pc = "start"
    /\ i = 0
    /\ attempt = 0
    /\ result = NoResult
    /\ results = <<>>
    /\ totalParts = 0
    /\ totalLabor = 0
    /\ totalTax = 0
    /\ flaggedCount = 0
    /\ userId = NoUser
    /\ batchId = NoBatch
    /\ db = NoDb
    /\ response = NoResponse
    /\ calls = 0
    /\ callLog = <<>>
    /\ sleeps = <<>>
    /\ invoked = <<>>
    /\ outcomes = <<>>
    /\ returns = <<>>
    /\ altResult = NoResult
    /\ alt = EmptyAcc
    /\ reqs = [r \in Requests |-> IdleReq]
    /\ batchRows = [r \in Requests |-> NoDb]
    /\ tables = NoTables
    /\ served = 0
    /\ writes = {}

(* ------------------------------------------------------------------ *)
(* Actions                                                             *)
(* ------------------------------------------------------------------ *)

\* POST /upload up to the loop: 400 without files; otherwise the auth
\* check and, for an authenticated user, the insert of the batch row
\* (which may fail, leaving batchId null).
UploadStart ==
    /\ pc = "start"
    /\ IF Len(files) = 0
       THEN /\ response' = [NoResponse EXCEPT !.status = 400, !.error = NoFilesMessage]
            /\ pc' = "done"
            /\ UNCHANGED <<userId, batchId, db>>
       ELSE \E u \in Users \cup {NoUser}, created \in BOOLEAN :
            /\ userId' = u
            /\ batchId' = IF u # NoUser /\ created THEN 1 ELSE NoBatch
            /\ db' = IF u # NoUser /\ created
                     THEN [NoDb EXCEPT !.status = "processing"]
                     ELSE db
            /\ pc' = "loop"
            /\ UNCHANGED response
    /\ UNCHANGED <<files, i, attempt, result, results, totalParts, totalLabor,
                   totalTax, flaggedCount, calls, callLog, sleeps, invoked,
                   outcomes, returns, altResult, alt>>
    /\ UNCHANGED <<concVars, routeVars>>

\* Mutant of ProcessNext: the loop does not wait for a sleeping
\* processInvoice and starts on the file after it.
MutProcessNext ==
    /\ pc \in {"loop", "sleeping"}
    /\ Len(invoked) < Len(files)
    /\ invoked' = Append(invoked, files[Len(invoked) + 1])
    /\ attempt' = 1
    /\ pc' = "attempt"
    /\ UNCHANGED <<files, i, result, results, totalParts, totalLabor, totalTax,
                   flaggedCount, userId, batchId, db, response, calls, callLog,
                   sleeps, outcomes, returns, altResult, alt>>
    /\ UNCHANGED <<concVars, routeVars>>

\* The loop takes the next file and calls processInvoice, which enters
\* its retry loop with attempt = 1.
ProcessNext ==
    /\ pc = "loop"
    /\ i < Len(files)
    /\ invoked' = Append(invoked, files[i + 1])
    /\ attempt' = 1
    /\ pc' = "attempt"
    /\ UNCHANGED <<files, i, result, results, totalParts, totalLabor, totalTax,
                   flaggedCount, userId, batchId, db, response, calls, callLog,
                   sleeps, outcomes, returns, altResult, alt>>
    /\ UNCHANGED <<concVars, routeVars>>

\* One attempt issues its request to the vision model and awaits it.
IssueCall ==
    /\ pc = "attempt"
    /\ calls' = calls + 1
    /\ pc' = "awaiting"
    /\ UNCHANGED <<files, i, attempt, result, results, totalParts, totalLabor,
                   totalTax, flaggedCount, userId, batchId, db, response,
                   callLog, sleeps, invoked, outcomes, returns, altResult, alt>>
    /\ UNCHANGED <<concVars, routeVars>>

\* The model answers with a text: processInvoice cleans, parses and
\* validates it and returns.
ReplyArrives ==
    /\ pc = "awaiting"
    /\ \E text \in TextsFor(i), f \in FlaggedVariants :
        /\ result' = HandleReply(text)
        /\ altResult' = HandleReply(WithFlagged(text, f))
        /\ callLog' = Append(callLog, [kind |-> "reply", message |-> NoError, text |-> text])
    /\ pc' = "returned"
    /\ UNCHANGED <<files, i, attempt, results, totalParts, totalLabor, totalTax,
                   flaggedCount, userId, batchId, db, response, calls, sleeps,
                   invoked, outcomes, returns, alt>>
    /\ UNCHANGED <<concVars, routeVars>>

\* The catch block of one attempt, for an error with this message.
Caught(message) ==
    IF isRateLimit(message) /\ MayRetry(attempt)
    THEN /\ sleeps' = Append(sleeps, BackoffDelay(attempt))
         /\ pc' = "sleeping"
         /\ UNCHANGED <<result, altResult>>
    ELSE /\ result' = IF isRateLimit(message) THEN QuotaFailure
                      ELSE ErrorFailure(message)
         /\ altResult' = result'
         /\ pc' = "returned"
         /\ UNCHANGED sleeps

\* The model call raises an error.
CallRaises ==
    /\ pc = "awaiting"
    /\ \E message \in ErrorMessages :
        /\ callLog' = Append(callLog, [kind |-> "raise", message |-> message, text |-> <<>>])
        /\ Caught(message)
    /\ UNCHANGED <<files, i, attempt, results, totalParts, totalLabor, totalTax,
                   flaggedCount, userId, batchId, db, response, calls, invoked,
                   outcomes, returns, alt>>
    /\ UNCHANGED <<concVars, routeVars>>

\* The model answers with a null content: text.trim() raises a TypeError
\* inside the try block.
NullContent ==
    /\ pc = "awaiting"
    /\ callLog' = Append(callLog, [kind |-> "null", message |-> NullContentMessage, text |-> <<>>])
    /\ Caught(NullContentMessage)
    /\ UNCHANGED <<files, i, attempt, results, totalParts, totalLabor, totalTax,
                   flaggedCount, userId, batchId, db, response, calls, invoked,
                   outcomes, returns, alt>>
    /\ UNCHANGED <<concVars, routeVars>>

\* Mutant of WakeUp: the loop condition is attempt < maxRetries.
MutWakeUp ==
    /\ pc = "sleeping"
    /\ attempt' = attempt + 1
    /\ IF attempt + 1 < maxRetries
       THEN /\ pc' = "attempt"
            /\ UNCHANGED <<result, altResult>>
       ELSE /\ pc' = "returned"
            /\ result' = NoResult
            /\ altResult' = NoResult
    /\ UNCHANGED <<files, i, results, totalParts, totalLabor, totalTax,
                   flaggedCount, userId, batchId, db, response, calls, callLog,
                   sleeps, invoked, outcomes, returns, alt>>
    /\ UNCHANGED <<concVars, routeVars>>

\* The backoff timer fires: continue, attempt++, and the loop condition
\* attempt <= maxRetries; a loop that ends falls off the function.
WakeUp ==
    /\ pc = "sleeping"
    /\ attempt' = attempt + 1
    /\ IF attempt + 1 <= maxRetries
       THEN /\ pc' = "attempt"
            /\ UNCHANGED <<result, altResult>>
       ELSE /\ pc' = "returned"
            /\ result' = NoResult
            /\ altResult' = NoResult
    /\ UNCHANGED <<files, i, results, totalParts, totalLabor, totalTax,
                   flaggedCount, userId, batchId, db, response, calls, callLog,
                   sleeps, invoked, outcomes, returns, alt>>
    /\ UNCHANGED <<concVars, routeVars>>

\* processInvoice has returned: the rest of the loop body. Reading
\* .success of undefined raises, which the handler's catch answers with 500.
Consume ==
    /\ pc = "returned"
    /\ IF result.defined
       THEN LET acc == Aggregate(Acc, result, files[i + 1])
            IN  /\ results' = acc.results
                /\ totalParts' = acc.totalParts
                /\ totalLabor' = acc.totalLabor
                /\ totalTax' = acc.totalTax
                /\ flaggedCount' = acc.flaggedCount
                /\ alt' = Aggregate(alt, altResult, files[i + 1])
                /\ db' = IF result.success /\ userId # NoUser /\ batchId # NoBatch
                         THEN [db EXCEPT !.invoices = db.invoices + 1]
                         ELSE db
                /\ outcomes' = Append(outcomes, result.success)
                /\ returns' = Append(returns, [result EXCEPT !.raw = <<>>])
                /\ i' = i + 1
                /\ pc' = "loop"
                /\ UNCHANGED response
       ELSE /\ response' = [NoResponse EXCEPT !.status = 500,
                                              !.error = ServerErrorMessage]
            /\ pc' = "done"
            /\ UNCHANGED <<results, totalParts, totalLabor, totalTax,
                           flaggedCount, alt, db, i, outcomes, returns>>
    /\ result' = NoResult
    /\ altResult' = NoResult
    /\ attempt' = 0
    /\ calls' = 0
    /\ callLog' = <<>>
    /\ sleeps' = <<>>
    /\ UNCHANGED <<files, userId, batchId, invoked>>
    /\ UNCHANGED <<concVars, routeVars>>

\* After the last file: the batch row is completed with the summary (an
\* update that fails, by an error returned or thrown, is passed over) and
\* the response is sent.
Finish ==
    /\ pc = "loop"
    /\ i = Len(files)
    /\ \E updated \in BOOLEAN :
          db' = IF userId # NoUser /\ batchId # NoBatch /\ updated
                THEN [db EXCEPT !.status = "completed", !.summary = StoredSummary(Acc)]
                ELSE db
    /\ response' = [NoResponse EXCEPT !.status = 200, !.success = TRUE,
                                      !.results = results,
                                      !.summary = Summary(Acc),
                                      !.batchId = batchId]
    /\ pc' = "done"
    /\ UNCHANGED <<files, i, attempt, result, results, totalParts, totalLabor,
                   totalTax, flaggedCount, userId, batchId, calls, callLog,
                   sleeps, invoked, outcomes, returns, altResult, alt>>
    /\ UNCHANGED <<concVars, routeVars>>

Next ==
    \/ UploadStart
    \/ ProcessNext
    \/ IssueCall
    \/ ReplyArrives
    \/ CallRaises
    \/ NullContent
    \/ WakeUp
    \/ Consume
    \/ Finish

Spec == Init /\ [][Next]_vars

\* The awaited model call ends: it raises, or it answers (with a null
\* content or with a text).
CallEnds == CallRaises \/ NullContent \/ ReplyArrives

\* Every model call returns or raises, every timer fires, and the event
\* loop runs every continuation that is ready.
FairSpec ==
    /\ Spec
    /\ WF_vars(UploadStart)
    /\ WF_vars(ProcessNext)
    /\ WF_vars(IssueCall)
    /\ WF_vars(CallEnds)
    /\ WF_vars(WakeUp)
    /\ WF_vars(Consume)
    /\ WF_vars(Finish)

(* ------------------------------------------------------------------ *)
(* Two /upload requests at once                                        *)
(* ------------------------------------------------------------------ *)

\* Two requests have arrived, each with its own files; the request
\* followed in detail and the /api routes are at rest.
ConcInit ==
    /\ files = <<>>
    /\ pc = "start"
    /\ i = 0
    /\ attempt = 0
    /\ result = NoResult
    /\ results = <<>>
    /\ totalParts = 0
    /\ totalLabor = 0
    /\ totalTax = 0
    /\ flaggedCount = 0
    /\ userId = NoUser
    /\ batchId = NoBatch
    /\ db = NoDb
    /\ response = NoResponse
    /\ calls = 0
    /\ callLog = <<>>
    /\ sleeps = <<>>
    /\ invoked = <<>>
    /\ outcomes = <<>>
    /\ returns = <<>>
    /\ altResult = NoResult
    /\ alt = EmptyAcc
    /\ reqs \in {f \in [Requests -> {ArrivedReq(fs) : fs \in SeqsUpTo(FileNames, MaxConcFiles)}] :
                    \A r \in Requests : \A k \in DOMAIN f[r].files :
                        f[r].files[k] = ConcFileName(r)}
    /\ batchRows = [r \in Requests |-> NoDb]
    /\ tables = NoTables
    /\ served = 0
    /\ writes = {}

\* Request r runs up to its first model call: 400 without files;
\* otherwise the batch row is inserted (or is not: no user, or the insert
\* fails) and processInvoice issues the call for the first file.
ConcStart(r) ==
    /\ reqs[r].pc = "start"
    /\ IF Len(reqs[r].files) = 0
       THEN /\ reqs' = [reqs EXCEPT ![r].pc = "done",
                                    ![r].response = [NoResponse EXCEPT !.status = 400,
                                                                       !.error = NoFilesMessage]]
            /\ UNCHANGED batchRows
       ELSE \E created \in BOOLEAN :
            /\ reqs' = [reqs EXCEPT ![r].batchId = IF created THEN r ELSE NoBatch,
                                    ![r].attempt = 1,
                                    ![r].pc = "awaiting"]
            /\ batchRows' = [batchRows EXCEPT ![r] =
                                IF created THEN [NoDb EXCEPT !.status = "processing"] ELSE @]
    /\ UNCHANGED <<uploadVars, routeVars>>

\* The model answers request r's call with a text, and the handler goes on.
ConcReplyArrives(r) ==
    /\ reqs[r].pc = "awaiting"
    /\ \E text \in ConcTexts :
        LET res == HandleReply(text)
        IN  /\ reqs' = [reqs EXCEPT ![r] = AfterOutcome(reqs[r], res)]
            /\ batchRows' = [batchRows EXCEPT ![r] = WithInvoice(@, reqs[r], res)]
    /\ UNCHANGED <<uploadVars, routeVars>>

\* Request r's call raises: a backoff sleep, or a failure returned to the
\* handler, which goes on.
ConcCallRaises(r) ==
    /\ reqs[r].pc = "awaiting"
    /\ \E message \in ConcMessages :
        IF isRateLimit(message) /\ MayRetry(reqs[r].attempt)
        THEN /\ reqs' = [reqs EXCEPT ![r].pc = "sleeping"]
             /\ UNCHANGED batchRows
        ELSE LET res == IF isRateLimit(message) THEN QuotaFailure
                        ELSE ErrorFailure(message)
             IN  /\ reqs' = [reqs EXCEPT ![r] = AfterOutcome(reqs[r], res)]
                 /\ batchRows' = [batchRows EXCEPT ![r] = WithInvoice(@, reqs[r], res)]
    /\ UNCHANGED <<uploadVars, routeVars>>

\* Request r's backoff timer fires and the next attempt issues its call.
ConcWakeUp(r) ==
    /\ reqs[r].pc = "sleeping"
    /\ reqs' = [reqs EXCEPT ![r].attempt = @ + 1,
                            ![r].pc = IF reqs[r].attempt + 1 <= maxRetries
                                      THEN "awaiting" ELSE "done",
                            ![r].response = IF reqs[r].attempt + 1 <= maxRetries THEN @
                                            ELSE [NoResponse EXCEPT !.status = 500,
                                                      !.error = ServerErrorMessage]]
    /\ UNCHANGED batchRows
    /\ UNCHANGED <<uploadVars, routeVars>>

\* After request r's last file: its batch row is completed (unless the
\* update fails) and its response is sent.
ConcFinish(r) ==
    /\ reqs[r].pc = "finishing"
    /\ \E updated \in BOOLEAN :
          batchRows' = [batchRows EXCEPT ![r] =
              IF reqs[r].batchId # NoBatch /\ updated
              THEN [@ EXCEPT !.status = "completed",
                             !.summary = StoredSummary(reqs[r].acc)]
              ELSE @]
    /\ reqs' = [reqs EXCEPT ![r].pc = "done",
                            ![r].response = [NoResponse EXCEPT
                                                !.status = 200, !.success = TRUE,
                                                !.results = reqs[r].acc.results,
                                                !.summary = Summary(reqs[r].acc),
                                                !.batchId = reqs[r].batchId]]
    /\ UNCHANGED <<uploadVars, routeVars>>

\* Whatever request r can do next.
ConcStep(r) ==
    \/ ConcStart(r)
    \/ ConcCallRaises(r)
    \/ ConcReplyArrives(r)
    \/ ConcWakeUp(r)
    \/ ConcFinish(r)

ConcNext ==
    \/ \E r \in Requests : ConcStart(r)
    \/ \E r \in Requests : ConcReplyArrives(r)
    \/ \E r \in Requests : ConcCallRaises(r)
    \/ \E r \in Requests : ConcWakeUp(r)
    \/ \E r \in Requests : ConcFinish(r)

ConcSpec == ConcInit /\ [][ConcNext]_vars

(* ------------------------------------------------------------------ *)
(* The /api write routes                                               *)
(* ------------------------------------------------------------------ *)

\* The database holds two users' rows; no upload is running.
RoutesInit ==
    /\ files = <<>>
    /\ pc = "start"
    /\ i = 0
    /\ attempt = 0
    /\ result = NoResult
    /\ results = <<>>
    /\ totalParts = 0
    /\ totalLabor = 0
    /\ totalTax = 0
    /\ flaggedCount = 0
    /\ userId = NoUser
    /\ batchId = NoBatch
    /\ db = NoDb
    /\ response = NoResponse
    /\ calls = 0
    /\ callLog = <<>>
    /\ sleeps = <<>>
    /\ invoked = <<>>
    /\ outcomes = <<>>
    /\ returns = <<>>
    /\ altResult = NoResult
    /\ alt = EmptyAcc
    /\ reqs = [r \in Requests |-> IdleReq]
    /\ batchRows = [r \in Requests |-> NoDb]
    /\ tables = SeededTables
    /\ served = 0
    /\ writes = {}

\* One request served: the tables it leaves and the writes it made.
Serve(t, ws) ==
    /\ served < MaxWrites
    /\ tables' = t
    /\ served' = served + 1
    /\ writes' = writes \cup ws
    /\ UNCHANGED <<uploadVars, concVars>>

\* POST /api/invoices: the batch must be the caller's; the new invoice
\* carries the caller's id and extractedData || {}.
PostInvoice ==
    \E u \in RouteUsers, b \in BatchIds, body \in ExtractedBodies, id \in InvoiceIds :
        /\ id \notin DOMAIN tables.invoices
        /\ IF b \in DOMAIN tables.batches /\ tables.batches[b].user_id = u
           THEN LET data == IF body = <<>>
                            THEN [val |-> "none", flagged |-> FALSE,
                                  isEdited |-> FALSE, originalValues |-> <<>>]
                            ELSE [val |-> body[1].val, flagged |-> body[1].flagged,
                                  isEdited |-> FALSE, originalValues |-> <<>>]
                    row == [batch_id |-> b, user_id |-> u,
                            extracted_data |-> data, held |-> <<>>]
                IN Serve([tables EXCEPT !.invoices = With(@, id, row)],
                         {Wrote(u, u, "invoice"),
                          Wrote(u, tables.batches[b].user_id, "batch of invoice")})
           ELSE Serve(tables, {})

\* PUT /api/invoices/:id: the check reads id and the batch's user_id only;
\* extracted_data becomes the body's object with isEdited and
\* originalValues; the update names the row by id.
PutInvoice ==
    \E u \in RouteUsers, id \in InvoiceIds, body \in ExtractedBodies :
        IF InvoiceOfCaller(tables, id, u)
        THEN LET row == tables.invoices[id]
                 existing == Column(row, {"id", "batches"}, "extracted_data")
                 data == [val |-> body[1].val, flagged |-> body[1].flagged,
                          isEdited |-> TRUE,
                          originalValues |-> OriginalValues(existing)]
                 new == IF body = <<>> THEN row
                        ELSE [row EXCEPT !.extracted_data = data,
                                         !.held = IF @ = <<>>
                                                  THEN <<row.extracted_data>> ELSE @]
             IN Serve([tables EXCEPT !.invoices[id] = new],
                      IF body = <<>> THEN {} ELSE {Wrote(u, row.user_id, "invoice")})
        ELSE Serve(tables, {})

\* PUT /api/invoices/:id/flag: the check reads extracted_data too; the
\* stored object keeps every key and takes the body's flagged.
PutInvoiceFlag ==
    \E u \in RouteUsers, id \in InvoiceIds, flagged \in BOOLEAN :
        IF InvoiceOfCaller(tables, id, u)
        THEN LET row == tables.invoices[id]
             IN Serve([tables EXCEPT !.invoices[id].extracted_data.flagged = flagged],
                      {Wrote(u, row.user_id, "invoice")})
        ELSE Serve(tables, {})

\* DELETE /api/invoices/:id: the same check, then the row is deleted.
DeleteInvoice ==
    \E u \in RouteUsers, id \in InvoiceIds :
        IF InvoiceOfCaller(tables, id, u)
        THEN Serve([tables EXCEPT !.invoices = Without(@, {id})],
                   {Wrote(u, tables.invoices[id].user_id, "invoice")})
        ELSE Serve(tables, {})

\* PUT /api/batches/:batchId: the caller's batch takes every column of
\* the body, user_id included.
PutBatch ==
    \E u \in RouteUsers, b \in BatchIds, body \in BatchBodies :
        IF b \in DOMAIN tables.batches /\ tables.batches[b].user_id = u
        THEN LET row == [batch_name |-> body.batch_name,
                         user_id |-> IF body.user_id = <<>> THEN u ELSE body.user_id[1]]
             IN Serve([tables EXCEPT !.batches[b] = row],
                      {Wrote(u, u, "batch"), Wrote(u, row.user_id, "batch")}
                      \cup {Wrote(u, tables.invoices[n].user_id, "batch of invoice") :
                              n \in {m \in DOMAIN tables.invoices :
                                        /\ tables.invoices[m].batch_id = b
                                        /\ row.user_id # u}})
        ELSE Serve(tables, {})

\* DELETE /api/batches/:batchId: the caller's batch goes, and with it the
\* invoices and files attached to it and the reviews of those files.
DeleteBatch ==
    \E u \in RouteUsers, b \in BatchIds :
        IF b \in DOMAIN tables.batches /\ tables.batches[b].user_id = u
        THEN LET invs == {n \in DOMAIN tables.invoices : tables.invoices[n].batch_id = b}
                 fls == {f \in DOMAIN tables.files : tables.files[f].batch_id = b}
                 revs == {r \in tables.reviews : r.file_id \in fls}
             IN Serve([batches |-> Without(tables.batches, {b}),
                       invoices |-> Without(tables.invoices, invs),
                       files |-> Without(tables.files, fls),
                       reviews |-> tables.reviews \ revs],
                      {Wrote(u, u, "batch")}
                      \cup {Wrote(u, tables.invoices[n].user_id, "invoice") : n \in invs}
                      \cup {Wrote(u, tables.files[f].user_id, "file") : f \in fls}
                      \cup {Wrote(u, r.user_id, "review") : r \in revs})
        ELSE Serve(tables, {})

\* PUT /api/files/:fileId: the caller's file takes the edited amounts.
PutFile ==
    \E u \in RouteUsers, f \in FileIds :
        IF f \in DOMAIN tables.files /\ tables.files[f].user_id = u
        THEN Serve([tables EXCEPT !.files[f].edited = TRUE], {Wrote(u, u, "file")})
        ELSE Serve(tables, {})

\* DELETE /api/files/:fileId: the caller's file goes, and its reviews.
DeleteFile ==
    \E u \in RouteUsers, f \in FileIds :
        IF f \in DOMAIN tables.files /\ tables.files[f].user_id = u
        THEN LET revs == {r \in tables.reviews : r.file_id = f}
             IN Serve([tables EXCEPT !.files = Without(@, {f}),
                                     !.reviews = @ \ revs],
                      {Wrote(u, u, "file")}
                      \cup {Wrote(u, r.user_id, "review") : r \in revs})
        ELSE Serve(tables, {})

\* POST /api/files/:fileId/review: a review row with the caller's id is
\* inserted for the file (the file must exist: file_id references files);
\* with corrected amounts, the file is updated if it is the caller's.
PostReview ==
    \E u \in RouteUsers, f \in FileIds, corrected \in BOOLEAN :
        IF f \in DOMAIN tables.files
        THEN LET mine == tables.files[f].user_id = u
                 fls == IF corrected /\ mine
                        THEN [tables.files EXCEPT ![f].edited = TRUE]
                        ELSE tables.files
             IN Serve([tables EXCEPT !.reviews = @ \cup {[file_id |-> f, user_id |-> u]},
                                     !.files = fls],
                      {Wrote(u, u, "review"),
                       Wrote(u, tables.files[f].user_id, "file of review")}
                      \cup IF corrected /\ mine THEN {Wrote(u, u, "file")} ELSE {})
        ELSE Serve(tables, {})

RoutesNext ==
    \/ PostInvoice
    \/ PutInvoice
    \/ PutInvoiceFlag
    \/ DeleteInvoice
    \/ PutBatch
    \/ DeleteBatch
    \/ PutFile
    \/ DeleteFile
    \/ PostReview

RoutesSpec == RoutesInit /\ [][RoutesNext]_vars

(* ------------------------------------------------------------------ *)
(* Properties                                                          *)
(* ------------------------------------------------------------------ *)

Last(q) == q[Len(q)]

\* processInvoice has just returned a result object to the handler.
Returned == pc = "returned" /\ result.defined

\* An entry of callLog for a call that raised a rate-limit error.
RateLimited(entry) == entry.kind = "raise" /\ entry.message \in RateLimitMessages

\* A reply text that is not the text of one JSON document: it holds
\* prose, or no document at all.
Unparsable(text) ==
    \/ \E k \in DOMAIN text : text[k].k = "junk"
    \/ ~\E k \in DOMAIN text : text[k].k = "doc"

\* C1: in every successful result of processInvoice, flagged is true iff
\* tax is a string or a number other than 0, and flagged is false iff tax
\* is the number 0, for every JSON value the reply has in tax.
C1_FlaggedIffTaxShape ==
    (Returned /\ result.success) =>
        LET d == result.data
        IN  /\ (d.flagged = Bool(TRUE)) <=>
                  (\/ TypeOf(d.tax) = "string"
                   \/ (TypeOf(d.tax) = "number" /\ d.tax.n # 0))
            /\ (d.flagged = Bool(FALSE)) <=>
                  (TypeOf(d.tax) = "number" /\ d.tax.n = 0)

\* C2, as stated: two replies that differ only in their flagged field make
\* processInvoice return identical results and the batch identical totals.
C2_IdenticalResults ==
    /\ pc = "returned" => result = altResult
    /\ alt = Acc

\* C2, amended: such replies give the same success, data, error and
\* quotaExceeded (all but raw, the reply's own text), the same rows, totals
\* and counters of the batch, and the same response summary.
C2_FlaggedFieldIgnored ==
    /\ pc = "returned" => [result EXCEPT !.raw = <<>>] = [altResult EXCEPT !.raw = <<>>]
    /\ alt = Acc
    /\ response.status = 200 =>
          response.summary = Summary(alt) /\ response.results = alt.results

\* The second file's reply and its variant differ in the flagged field,
\* and the reply's own flagged value contradicts the one computed.
C2_Witness ==
    /\ Returned /\ result.success /\ i = 1
    /\ result.raw # altResult.raw
    /\ \E k \in DOMAIN result.raw :
          /\ result.raw[k].k = "doc"
          /\ result.raw[k].doc.flagged = Bool(FALSE)
          /\ result.data.flagged = Bool(TRUE)

\* C3: processInvoice issues at most 3 model calls for one image, and
\* call n+1 only after call n raised a rate-limit error.
C3_AtMostThreeCalls ==
    /\ calls <= 3
    /\ Len(callLog) <= calls
    /\ \A n \in 1..Len(callLog) : n < calls => RateLimited(callLog[n])

C3_Witness == pc = "awaiting" /\ calls = 3

\* C4: when three consecutive attempts raise rate-limit errors,
\* processInvoice has slept exactly twice, 1000 ms then 2000 ms, does not
\* sleep after the third, and returns a failure with quotaExceeded = true.
C4_BackoffThenQuota ==
    (Len(callLog) = 3 /\ \A n \in 1..3 : RateLimited(callLog[n])) =>
        /\ Returned
        /\ sleeps = <<1000, 2000>>
        /\ ~result.success
        /\ result.quotaExceeded = Bool(TRUE)

C4_Witness ==
    /\ Returned
    /\ Len(callLog) = 3
    /\ \A n \in 1..3 : RateLimited(callLog[n])
    /\ result.error = QuotaMessage

\* The reply's text is that of the JSON document null.
NullReply(text) ==
    \E k \in DOMAIN text : text[k].k = "doc" /\ text[k].doc.kind = "null"

\* C5, as stated: once a reply has been parsed as JSON, processInvoice
\* returns success with no further call and no further sleep.
C5_ParsedMeansSuccess ==
    (callLog # <<>> /\ Last(callLog).kind = "reply" /\ ~Unparsable(Last(callLog).text))
    =>  /\ Returned
        /\ result.success
        /\ calls = Len(callLog)
        /\ Len(sleeps) = calls - 1

\* C5, amended: a reply that parses ends the extraction at once, with no
\* further call and no further sleep, the sleeps so far being
\* 1000 * 2^(n-1) after attempt n, and the result is a success unless the
\* document is null (then it is the parse failure); a rate limit on
\* attempt 1 and such a reply on attempt 2 give one sleep of 1000 ms and
\* two calls.
C5_ParseShortCircuits ==
    (callLog # <<>> /\ Last(callLog).kind = "reply" /\ ~Unparsable(Last(callLog).text))
    =>  /\ Returned
        /\ result.success <=> ~NullReply(Last(callLog).text)
        /\ NullReply(Last(callLog).text) => result.error = ParseFailedMessage
        /\ calls = Len(callLog)
        /\ attempt = calls
        /\ Len(sleeps) = calls - 1
        /\ \A n \in 1..Len(sleeps) : sleeps[n] = 1000 * Pow2(n - 1)
        /\ (Len(callLog) = 2 => sleeps = <<1000>> /\ calls = 2)

C5_Witness ==
    /\ Returned /\ result.success
    /\ Len(callLog) = 2
    /\ RateLimited(callLog[1])
    /\ callLog[2].kind = "reply"
    /\ sleeps = <<1000>>

\* C6: an error of the model call that is no rate-limit condition makes
\* processInvoice return, on that attempt, a failure carrying the error's
\* message unchanged, without a sleep, a further call or quotaExceeded.
C6_OtherErrorIsTerminal ==
    (callLog # <<>> /\ Last(callLog).kind \in {"raise", "null"}
        /\ Last(callLog).message \notin RateLimitMessages)
    =>  /\ Returned
        /\ ~result.success
        /\ result.error = Last(callLog).message
        /\ result.quotaExceeded = Undef
        /\ calls = Len(callLog)
        /\ attempt = calls
        /\ Len(sleeps) = calls - 1
        /\ (Len(callLog) = 1 => sleeps = <<>> /\ calls = 1 /\ attempt = 1)

C6_Witness ==
    /\ Returned
    /\ Len(callLog) = 1
    /\ callLog[1].kind = "raise"
    /\ callLog[1].message \in OtherMessages
    /\ result.error = callLog[1].message

\* C7: a reply that cannot be parsed as JSON makes processInvoice return
\* (not throw) a failure with success = false and the raw reply text,
\* using no further attempt, no sleep and no quotaExceeded.
C7_ParseFailureIsStructured ==
    (callLog # <<>> /\ Last(callLog).kind = "reply" /\ Unparsable(Last(callLog).text))
    =>  /\ Returned
        /\ ~result.success
        /\ result.hasRaw
        /\ result.raw = Last(callLog).text
        /\ result.error # NoError
        /\ result.quotaExceeded = Undef
        /\ calls = Len(callLog)
        /\ attempt = calls
        /\ Len(sleeps) = calls - 1

C7_Witness ==
    /\ Returned /\ ~result.success
    /\ Len(callLog) = 1
    /\ callLog[1].kind = "reply"
    /\ Unparsable(callLog[1].text)
    /\ callLog[1].text # <<>>
    /\ result.raw = callLog[1].text

\* C8: a returned failure has quotaExceeded = true exactly when all 3
\* attempts raised rate-limit errors; every other result leaves it unset.
C8_QuotaIffBudgetExhausted ==
    pc = "returned" =>
        /\ result.defined
        /\ result.quotaExceeded \in {Undef, Bool(TRUE)}
        /\ (result.quotaExceeded = Bool(TRUE)) <=>
              (Len(callLog) = 3 /\ \A n \in 1..3 : RateLimited(callLog[n]))
        /\ (result.quotaExceeded = Bool(TRUE)) => ~result.success

\* Two rate limits, then an error of another kind on the third attempt.
C8_Witness ==
    /\ Returned /\ ~result.success
    /\ Len(callLog) = 3
    /\ RateLimited(callLog[1]) /\ RateLimited(callLog[2])
    /\ ~RateLimited(callLog[3])
    /\ result.quotaExceeded = Undef

\* C9: a failed extraction never aborts the batch: every file is still
\* processed, the response is HTTP 200 with success = true, and the failure
\* shows as that file's flagged error row.
C9_FailureDoesNotAbortBatch ==
    /\ pc = "done" /\ files # <<>> =>
          /\ response.status = 200
          /\ response.success
          /\ Len(outcomes) = Len(files)
          /\ invoked = files
          /\ response.results = results
    /\ Len(results) = Len(outcomes)
    /\ \A k \in 1..Len(outcomes) :
          IF outcomes[k]
          THEN results[k].error = NoError
          ELSE /\ results[k].error # NoError
               /\ results[k].flagged = Bool(TRUE)
               /\ results[k].filename = files[k]
               /\ results[k].parts = Undef

\* The first file failed, the second was still extracted, the answer is 200.
C9_Witness ==
    /\ pc = "done" /\ response.status = 200 /\ response.success
    /\ Len(files) = 2
    /\ ~outcomes[1] /\ outcomes[2]
    /\ response.results[2].error = NoError

\* C10: processInvoice is invoked once per file, in input order, and the
\* response's results list has one entry per file, entry k carrying the
\* name of file k.
C10_OncePerFileInOrder ==
    /\ Len(invoked) <= Len(files)
    /\ invoked = SubSeq(files, 1, Len(invoked))
    /\ Len(results) = i
    /\ Len(invoked) = (IF pc \in {"attempt", "awaiting", "sleeping", "returned"}
                       THEN i + 1 ELSE i)
    /\ response.status = 200 =>
          /\ invoked = files
          /\ Len(response.results) = Len(files)
          /\ \A k \in 1..Len(files) : response.results[k].filename = files[k]

C10_Witness ==
    /\ response.status = 200
    /\ files = <<"b.png", "a.jpg">>
    /\ response.results[1].filename = "b.png"
    /\ response.results[1].error = NoError
    /\ response.results[2].filename = "a.jpg"

\* A row of results that was extracted successfully and is not flagged.
Counted(row) == row.error = NoError /\ row.flagged = Bool(FALSE)

\* The number in a field of a row, 0 when the field holds no number.
AmountIn(row, field) ==
    LET v == CASE field = "parts" -> row.parts
               [] field = "labor" -> row.labor
               [] OTHER -> row.tax
    IN  IF v.t = "number" THEN v.n ELSE 0

\* The sum of a field over the counted rows.
RECURSIVE SumCounted(_, _)
SumCounted(rows, field) ==
    IF rows = <<>> THEN 0
    ELSE (IF Counted(Head(rows)) THEN AmountIn(Head(rows), field) ELSE 0)
         + SumCounted(Tail(rows), field)

\* t is s rounded to hundredths, a tie going away from zero.
RoundedFrom(t, s) ==
    /\ t % 10 = 0
    /\ IF s >= 0 THEN t - s \in (0 - 4)..5 ELSE t - s \in (0 - 5)..4

FlaggedRows(rows) == Cardinality({k \in DOMAIN rows : rows[k].flagged = Bool(TRUE)})

\* C12: totalInvoices is the number of submitted files, flaggedCount the
\* number of rows whose flagged is true (flagged successes and all
\* failures), processedCount = totalInvoices - flaggedCount, which is the
\* number of unflagged successes, and 0 <= flaggedCount <= totalInvoices.
C12_CountsAgree ==
    /\ flaggedCount = FlaggedRows(results)
    /\ \A k \in DOMAIN results : results[k].error # NoError => results[k].flagged = Bool(TRUE)
    /\ response.status = 200 =>
          LET s == response.summary
              rows == response.results
          IN  /\ s.totalInvoices = Len(files)
              /\ s.flaggedCount = FlaggedRows(rows)
              /\ s.processedCount = s.totalInvoices - s.flaggedCount
              /\ 0 <= s.flaggedCount /\ s.flaggedCount <= s.totalInvoices
              /\ s.processedCount = Cardinality({k \in DOMAIN rows : Counted(rows[k])})

\* A flagged success and a failure: two files, both flagged, none processed.
C12_Witness ==
    /\ response.status = 200
    /\ Len(files) = 2
    /\ response.results[1].error = NoError
    /\ response.results[1].flagged = Bool(TRUE)
    /\ response.results[2].error # NoError
    /\ response.summary.flaggedCount = 2
    /\ response.summary.processedCount = 0

\* C13: for a failed extraction the handler appends exactly one record,
\* with the file's name, the failure's error message, flagged = true and
\* quotaExceeded true exactly when the failure was tagged so, and adds
\* exactly one to flaggedCount (and nothing to the totals).
C13_FailureRecord ==
    [][(pc = "returned" /\ result.defined /\ ~result.success) =>
          /\ Len(results') = Len(results) + 1
          /\ SubSeq(results', 1, Len(results)) = results
          /\ results'[Len(results')].filename = files[i + 1]
          /\ results'[Len(results')].error = result.error
          /\ results'[Len(results')].flagged = Bool(TRUE)
          /\ results'[Len(results')].quotaExceeded = Bool(result.quotaExceeded = Bool(TRUE))
          /\ flaggedCount' = flaggedCount + 1
          /\ <<totalParts', totalLabor', totalTax'>> = <<totalParts, totalLabor, totalTax>>
      ]_vars

\* A quota failure and then a failure of another kind have been recorded.
C13_Witness ==
    /\ Len(results) = 2
    /\ results[1].error = QuotaMessage
    /\ results[1].quotaExceeded = Bool(TRUE)
    /\ results[2].error \in OtherMessages
    /\ results[2].quotaExceeded = Bool(FALSE)
    /\ flaggedCount = 2

\* The permutations of 1..n.
Perms(n) == {p \in [1..n -> 1..n] : \A a, b \in 1..n : p[a] = p[b] => a = b}

\* The handler's loop run over the files fs with the extraction outcomes rs.
RECURSIVE FoldBatch(_, _, _)
FoldBatch(acc, fs, rs) ==
    IF fs = <<>> THEN acc
    ELSE FoldBatch(Aggregate(acc, Head(rs), Head(fs)), Tail(fs), Tail(rs))

\* The totals and counters of a summary.
TotalsOf(s) ==
    <<s.totalParts, s.totalLabor, s.totalTax, s.flaggedCount, s.processedCount>>

\* The sum of parts + labor + tax over the counted rows.
SumAllCounted(rows) ==
    SumCounted(rows, "parts") + SumCounted(rows, "labor") + SumCounted(rows, "tax")

JsonFenced(d) == <<Tick, JsonWord, Ws, DocTok(d), Ws, Tick>>

PlainFenced(d) == <<Tick, Ws, DocTok(d), Ws, Tick>>

\* C15: a reply that is a JSON text inside a ```json fence or a plain ```
\* fence makes processInvoice return the same success, data and error as
\* the reply that is the JSON text alone.
C15_FenceTransparent ==
    \A d \in Docs :
        (/\ Returned
         /\ callLog # <<>>
         /\ Last(callLog).kind = "reply"
         /\ Last(callLog).text \in {JsonFenced(d), PlainFenced(d)})
        =>  LET bare == HandleReply(<<DocTok(d)>>)
            IN  /\ result.success = bare.success
                /\ result.data = bare.data
                /\ result.error = bare.error
                /\ result.quotaExceeded = bare.quotaExceeded
                /\ bare.success = (d.kind # "null")

\* A plain-fenced reply with string amounts has been parsed.
C15_Witness ==
    /\ Returned
    /\ result.success
    /\ \E d \in Docs :
        /\ Last(callLog).text = PlainFenced(d)
        /\ d.kind = "object"
        /\ TypeOf(d.parts) = "string"
        /\ result.data.parts = Num(12500)

\* The document the model wrote in the last reply of the current run.
ReplyDoc == JSONParse(StripFence(Last(callLog).text)).doc

\* processInvoice has just returned from a reply that parsed to an object.
ReturnedFromObject ==
    /\ Returned
    /\ callLog # <<>>
    /\ Last(callLog).kind = "reply"
    /\ JSONParse(StripFence(Last(callLog).text)).ok
    /\ ReplyDoc.kind = "object"

\* C16: a reply whose parts, labor and tax are each 0.00 or left out gives
\* a successful result with parts = labor = tax = 0.00 and flagged false.
C16_NothingFoundIsZero ==
    (/\ ReturnedFromObject
     /\ ReplyDoc.parts \in {Num(0), Undef}
     /\ ReplyDoc.labor \in {Num(0), Undef}
     /\ ReplyDoc.tax \in {Num(0), Undef})
    =>  /\ result.success
        /\ result.data.parts = Num(0)
        /\ result.data.labor = Num(0)
        /\ result.data.tax = Num(0)
        /\ result.data.flagged = Bool(FALSE)

\* C17: in every successful result confidence is high, medium or low, and
\* it is medium when the reply has no confidence field.
C17_ConfidenceInEnum ==
    (Returned /\ result.success) =>
        /\ result.data.confidence \in {Str(HIGH), Str(MEDIUM), Str(LOW)}
        /\ (ReturnedFromObject /\ ReplyDoc.confidence = Undef)
              => result.data.confidence = Str(MEDIUM)

\* C18: in every successful result parts and labor are non-negative
\* numbers.
C18_AmountsNonNegative ==
    (Returned /\ result.success) =>
        /\ TypeOf(result.data.parts) = "number" /\ result.data.parts.n >= 0
        /\ TypeOf(result.data.labor) = "number" /\ result.data.labor.n >= 0

\* A non-negative number or a string.
TaxShape(tax) ==
    \/ TypeOf(tax) = "string"
    \/ (TypeOf(tax) = "number" /\ tax # NaN /\ tax.n >= 0)

\* C19: tax is a non-negative number or a string in every successful
\* result and in every success row of the batch's results list.
C19_TaxShape ==
    /\ (Returned /\ result.success) => TaxShape(result.data.tax)
    /\ \A k \in DOMAIN results :
          results[k].error = NoError => TaxShape(results[k].tax)

\* processInvoice is running: it has been invoked and has not been
\* consumed by the loop.
Extracting == pc \in {"attempt", "awaiting", "sleeping", "returned"}

\* C20: at most one extraction of a batch is in flight: files are taken in
\* submitted order, and while processInvoice runs for a file (its calls and
\* its backoff sleeps included) every file before it has returned and no
\* file after it has been started.
C20_OneInFlight ==
    /\ Len(invoked) - Len(outcomes) \in {0, 1}
    /\ Len(invoked) <= Len(files)
    /\ \A k \in DOMAIN invoked : invoked[k] = files[k]
    /\ Extracting => (Len(outcomes) = i /\ Len(invoked) = i + 1)
    /\ pc = "loop" => (Len(outcomes) = i /\ Len(invoked) = i)

\* The second file's second call is in flight, after its backoff sleep,
\* with the first file returned.
C20_Witness ==
    /\ pc = "awaiting"
    /\ i = 1
    /\ attempt = 2
    /\ Len(outcomes) = 1
    /\ Len(invoked) = 2

\* The message holds one of the four markers 429, quota, rate limit,
\* billing.
Marked(message) ==
    \/ \E k \in DOMAIN message : message[k] \in {"429", "quota", "billing"}
    \/ \E k \in 1..(Len(message) - 1) : message[k] = "rate" /\ message[k + 1] = "limit"

\* C22: an error raised by the model call leads to a backoff sleep and a
\* further attempt exactly when its message holds 429, quota, rate limit
\* or billing and attempts remain; a marked error on the last attempt
\* returns the quota failure, and an unmarked error returns at once with
\* its own message, on whichever attempt it comes.
C22_RetryIffMarked ==
    [][(/\ pc = "awaiting"
        /\ Len(callLog') = Len(callLog) + 1
        /\ Last(callLog').kind = "raise")
       => LET m == Last(callLog').message
          IN  /\ (pc' = "sleeping") <=> (Marked(m) /\ attempt < maxRetries)
              /\ pc' = "sleeping" => Len(sleeps') = Len(sleeps) + 1
              /\ pc' # "sleeping" => (pc' = "returned" /\ sleeps' = sleeps)
              /\ (Marked(m) /\ attempt = maxRetries) => result' = QuotaFailure
              /\ ~Marked(m) =>
                    /\ result'.defined /\ ~result'.success
                    /\ result'.error = m
                    /\ result'.quotaExceeded = Undef]_vars

\* The second file sleeps on an error marked by billing alone, and the
\* first file's run was ended by an unmarked error.
C22_Witness ==
    /\ pc = "sleeping"
    /\ attempt = 1
    /\ ~Includes(Last(callLog).message, <<"429">>)
    /\ Includes(Last(callLog).message, <<"billing">>)
    /\ Len(outcomes) = 1
    /\ ~outcomes[1]
    /\ returns[1].quotaExceeded = Undef
    /\ returns[1].error \in OtherMessages

\* A number that is not NaN.
IsRealNumber(v) == v.t = "number"

\* What the rule of the claim makes of a value of the reply: a number as
\* it is, a value with a decimal prefix parsed, anything else 0.
Normalised(x) ==
    IF IsRealNumber(x) THEN x
    ELSE IF x.t = "string" /\ IsRealNumber(ParseFloatStr(x.s)) THEN ParseFloatStr(x.s)
    ELSE Num(0)

\* C23: in every successful result parts and labor are the reply's values
\* normalised (a number unchanged, another value decimal-parsed, an
\* unparsable or missing one 0), so they are numbers and never NaN, a
\* string or undefined.
C23_AmountsNormalised ==
    (Returned /\ result.success) =>
        /\ Last(callLog).kind = "reply"
        /\ result.data.parts = Normalised(ReplyDoc.parts)
        /\ result.data.labor = Normalised(ReplyDoc.labor)
        /\ IsRealNumber(result.data.parts)
        /\ IsRealNumber(result.data.labor)

\* A reply with parts "$45" (unparsable) and labor " 7.5" (parsable) has
\* been normalised to 0 and 7.5.
C23_Witness ==
    /\ Returned /\ result.success
    /\ ReplyDoc.parts = Str(<<"$", "4", "5">>)
    /\ ReplyDoc.labor = Str(<<" ", "7", ".", "5">>)
    /\ result.data.parts = Num(0)
    /\ result.data.labor = Num(7500)

\* C24: the result's tax is the very value of the reply; a string tax
\* stays a string, even with a numeric text, sets flagged = true, and its
\* row in the batch stays a flagged one, which the totals leave out.
C24_TaxCarriedThrough ==
    /\ (Returned /\ result.success) =>
          /\ result.data.tax = ReplyDoc.tax
          /\ TypeOf(ReplyDoc.tax) = "string" =>
                /\ result.data.tax.t = "string"
                /\ result.data.flagged = Bool(TRUE)
    /\ \A k \in DOMAIN results :
          (results[k].error = NoError /\ TypeOf(results[k].tax) = "string")
              => (results[k].flagged = Bool(TRUE) /\ ~Counted(results[k]))
    /\ totalTax = SumCounted(results, "tax")

\* The reply's tax was the string "0": the row holds that string, is
\* flagged, and the batch has been answered with nothing counted.
C24_Witness ==
    /\ response.status = 200
    /\ Len(response.results) = 1
    /\ response.results[1].tax = Str(<<"0">>)
    /\ response.results[1].flagged = Bool(TRUE)
    /\ response.summary.flaggedCount = 1
    /\ response.summary.totalParts = 0

\* C28: the running and the reported totalTax are 0 in every batch: every
\* row that is not flagged and whose tax is a number has tax 0.
C28_TotalTaxIsZero ==
    /\ totalTax = 0
    /\ \A k \in DOMAIN results :
          (Counted(results[k]) /\ TypeOf(results[k].tax) = "number")
              => results[k].tax = Num(0)
    /\ response.status = 200 => response.summary.totalTax = 0

\* A batch has been answered that holds a counted row with tax 0 and a
\* row with a tax of 8.25.
C28_Witness ==
    /\ response.status = 200
    /\ Len(response.results) = 2
    /\ Counted(response.results[1])
    /\ response.results[1].tax = Num(0)
    /\ response.results[2].tax = Num(8250)
    /\ response.summary.totalTax = 0

\* C25: every model call returning or raising, processInvoice always
\* returns an object with a boolean success (never undefined from the end
\* of its loop), and every batch sends one response, once.
C25_TerminatesWithResult ==
    /\ [](pc = "returned" => (result.defined /\ result.success \in BOOLEAN))
    /\ [][response # NoResponse => response' = response]_vars
    /\ <>[](pc = "done" /\ response.status \in {200, 400})

\* A batch of two has been answered after its first file used up all
\* three attempts.
C25_Witness ==
    /\ pc = "done"
    /\ response.status = 200
    /\ Len(files) = 2
    /\ returns[1].quotaExceeded = Bool(TRUE)
    /\ returns[2].success

\* C29: a batch with a database row is set to completed only after all
\* its images have been processed, with the totals and flaggedCount of
\* the response summary, and once the response is sent no batch is left
\* with status processing.
C29_CompletedWithResponse ==
    /\ db.status = "completed" =>
          /\ Len(outcomes) = Len(files)
          /\ response.status = 200
          /\ db.summary.totalParts = response.summary.totalParts
          /\ db.summary.totalLabor = response.summary.totalLabor
          /\ db.summary.totalTax = response.summary.totalTax
          /\ db.summary.flaggedCount = response.summary.flaggedCount
    /\ response # NoResponse => db.status # "processing"

\* The accumulators of src/server.js after the batch's files, fed the
\* outcomes this batch had.
ServerRun == ServerFold(ServerEmptyAcc, files, returns)

\* C26: fed the same extraction outcomes, the handler of src/server.js
\* gives the summary of the handler of src/unnamed/part_000 and the same
\* flagged value on every row.
C26_HandlersAgree ==
    response.status = 200 =>
        /\ ServerSummary(ServerRun, Len(files)) = response.summary
        /\ \A k \in DOMAIN response.results :
              ServerRun.results[k].flagged = response.results[k].flagged

\* What request r's handler would hold running alone, fed the outcomes
\* processInvoice has returned to it so far.
Alone(r) ==
    FoldBatch(EmptyAcc, SubSeq(reqs[r].files, 1, Len(reqs[r].returns)), reqs[r].returns)

\* C21: with two /upload requests interleaved in any order, each one's
\* rows, totals and counters, its response and its batch row are those of
\* the request run alone on the same extraction outcomes, and a request
\* sleeping in backoff leaves the other one able to take its next step.
C21_RequestsIsolated ==
    \A r \in Requests :
        /\ reqs[r].acc = Alone(r)
        /\ reqs[r].response.status = 200 =>
              /\ Len(reqs[r].returns) = Len(reqs[r].files)
              /\ reqs[r].response.results = Alone(r).results
              /\ reqs[r].response.summary = Summary(Alone(r))
        /\ batchRows[r].status = "completed" =>
              batchRows[r].summary = StoredSummary(Alone(r))
        /\ \A s \in Requests \ {r} :
              (reqs[r].pc = "sleeping" /\ reqs[s].pc # "done") => ENABLED ConcStep(s)

\* Request 1 holds a counted row and sleeps in backoff on its second
\* file, and meanwhile request 2 has been answered with totals of its own.
C21_Witness ==
    /\ reqs[1].pc = "sleeping"
    /\ reqs[1].i = 1
    /\ reqs[1].acc.totalParts = 100000
    /\ reqs[2].pc = "done"
    /\ reqs[2].response.status = 200
    /\ reqs[2].response.summary.totalInvoices = 2
    /\ reqs[2].response.summary.totalParts = 200000
    /\ reqs[2].response.results[1].filename = "b.png"

\* C27: a request authenticated as user U to the write routes never
\* creates, modifies or deletes a row that belongs to, or is attached to
\* a batch or file of, another user: every write recorded has the caller
\* as owner, every review is attached to a file of its user and every
\* invoice to a batch of its user.
C27_WritesStayWithCaller ==
    /\ \A w \in writes : w.owner = w.caller
    /\ \A r \in tables.reviews :
          r.file_id \in DOMAIN tables.files => tables.files[r.file_id].user_id = r.user_id
    /\ \A n \in DOMAIN tables.invoices :
          tables.invoices[n].batch_id \in DOMAIN tables.batches =>
              tables.batches[tables.invoices[n].batch_id].user_id = tables.invoices[n].user_id

\* C30: once PUT /api/invoices/:id has supplied extractedData for an
\* invoice, the stored extracted_data has isEdited = true and its
\* originalValues is the extracted_data the invoice held before its first
\* edit.
C30_OriginalValuesKept ==
    \A n \in DOMAIN tables.invoices :
        LET row == tables.invoices[n]
        IN row.held # <<>> =>
              /\ row.extracted_data.isEdited
              /\ row.extracted_data.originalValues = row.held

====
